---------------------------- MODULE Spec2Model ----------------------------
(***************************************************************************)
(* Guest-User-Invite: a model of the backend invite handler                *)
(* (src/src/functions/inviteGuest.js) and of the web form's bulk parsers   *)
(* and submission loop (src/unnamed/part_000, the React App component).    *)
(*                                                                         *)
(* Strings the code inspects character by character are sequences of       *)
(* one-character strings; a text is the sequence of its line segments,     *)
(* i.e. what rawText.split(/\r?\n/) returns.                               *)
(*                                                                         *)
(* Specifications:                                                         *)
(*   Spec        one request through the backend handler                   *)
(*   SpecParse   parseManualBulk and parseEntraTemplateCsv on bounded      *)
(*               texts                                                     *)
(*   SpecCsv     parseCsvLine on bounded lines                             *)
(*   SpecBulk    the form on the Bulk Invite tab: typing, uploading,       *)
(*               toggling the flags, one submission                        *)
(*   SpecCap     bulk submissions of 1, 100 and 101 usable rows            *)
(*   SpecSingle  one submission of the Single Invite tab                   *)
(*                                                                         *)
(* The form is taken to be signed in (the submit button is enabled), and   *)
(* the user edits it only while no submission runs: inviteGuest works on   *)
(* the state of the render that started it.                                *)
(***************************************************************************)
EXTENDS Integers, Sequences, FiniteSets, TLC

VARIABLES
    \* ---- backend process configuration (inviteGuest.js:10-16)
    IS_AZURE_RUNTIME,
    ALLOW_LOCAL_ANONYMOUS_INVITE,
    ALLOWED_INVITER_GROUP_OBJECT_IDS,
    ENFORCE_GROUP_MEMBERSHIP_IN_AZURE,
    \* ---- one run of the backend inviteGuest handler
    hpc,            \* position of the handler: idle, token, awaitProfile, ...
    request,        \* the inbound request: body email and identity header
    callerOid,      \* authorizeInviter's callerOid
    profileRes,     \* the directory's answer to the profile lookup
    memberRes,      \* the directory's answer to checkMemberGroups
    inviterAuth,    \* what authorizeInviter returned
    invitation,     \* the directory's answer to POST /invitations
    stampRes,       \* the directory's answer to PATCH /users/{invitedUserId}
    response,       \* the handler's HTTP response
    graphCalls,     \* the Graph calls issued for this request, in order
    \* ---- one call of a bulk parser of the web form
    parseMode,      \* which parser: manual (free-form) or template
    parseText,      \* its rawText
    parseDefaults,  \* its defaults argument
    parseResult,    \* what it returned: { entries, errors }
    parsePc,        \* ready, parsed
    csvLine,        \* the line given to parseCsvLine
    csvFields,      \* what parseCsvLine returned
    \* ---- the web form (App component, part_000:264-281)
    mode,
    email,
    firstName,
    lastName,
    redirectUrl,
    sendEmailFlag,
    resetRedemptionFlag,
    customizedMessageBody,
    bulkInput,
    bulkEntriesFromFile,
    bulkFileName,
    loading,
    result,
    \* ---- one run of the form's inviteGuest (part_000:332-455)
    formPc,         \* idle, sending (a fetch is awaited), done
    entries,        \* inviteGuest's entries
    validationErrors,
    failures,
    calls,          \* the bodies of the fetches issued, in order
    completed,      \* how many of them have returned
    netScript       \* what the network answered to the first calls

backendVars ==
    << IS_AZURE_RUNTIME, ALLOW_LOCAL_ANONYMOUS_INVITE,
       ALLOWED_INVITER_GROUP_OBJECT_IDS, ENFORCE_GROUP_MEMBERSHIP_IN_AZURE,
       hpc, request, callerOid, profileRes, memberRes, inviterAuth,
       invitation, stampRes, response, graphCalls >>

parseVars ==
    << parseMode, parseText, parseDefaults, parseResult, parsePc, csvLine, csvFields >>

formVars ==
    << mode, email, firstName, lastName, redirectUrl, sendEmailFlag,
       resetRedemptionFlag, customizedMessageBody, bulkInput,
       bulkEntriesFromFile, bulkFileName, loading, result >>

submitVars ==
    << formPc, entries, validationErrors, failures, calls, completed, netScript >>

vars ==
    << backendVars, parseVars, formVars, submitVars >>

\* JavaScript's null / undefined / missing field.
NULL == "null"

(***************************************************************************)
(* Backend: src/src/functions/inviteGuest.js                               *)
(***************************************************************************)

\* The group ids a deployment may list in ALLOWED_INVITER_GROUP_OBJECT_IDS.
GroupIds == {"g1", "g2"}

\* The x-ms-client-principal header: absent, undecodable, or a decoded claim
\* set with its objectidentifier claim, its oid claim and its userId field.
Headers ==
    [raw : {"none", "garbage"}, oidClaim : {NULL}, oidShort : {NULL}, userId : {NULL}]
    \cup
    [raw : {"json"}, oidClaim : {NULL, "oid-A"}, oidShort : {NULL, "oid-B"},
     userId : {NULL, "oid-C"}]

Requests == [email : {NULL, "guest@external.com"}, header : Headers]

NoRequest ==
    [email |-> NULL,
     header |-> [raw |-> "none", oidClaim |-> NULL, oidShort |-> NULL, userId |-> NULL]]

\* A response of fetch() inside graphRequest: res.ok, res.status and the
\* parsed JSON body. The body of a profile is the selected fields of the user.
NoBody == [id |-> NULL, accountEnabled |-> "absent", userType |-> NULL]

Profiles(oid) ==
    [id : {NULL, oid}, accountEnabled : {"true", "false", "absent"},
     userType : {"Member", "Guest"}]

ProfileResponses(oid) ==
    [ok : {FALSE}, status : {404, 503}, body : {NoBody}]
    \cup
    [ok : {TRUE}, status : {200}, body : Profiles(oid) \cup {NoBody}]

NoProfileRes == [ok |-> FALSE, status |-> 0, body |-> NoBody]

\* checkMemberGroups answers with the subset of the asked groups the caller
\* is in; isArray is FALSE when the body carries no array under "value".
MemberResponses ==
    [ok : {FALSE}, status : {403, 503}, isArray : {FALSE}, value : {{}}]
    \cup
    [ok : {TRUE}, status : {200}, isArray : {TRUE},
     value : SUBSET ALLOWED_INVITER_GROUP_OBJECT_IDS]
    \cup
    [ok : {TRUE}, status : {200}, isArray : {FALSE}, value : {{}}]

NoMemberRes == [ok |-> FALSE, status |-> 0, isArray |-> FALSE, value |-> {}]

\* POST /invitations answers with invitedUser.id (or without one).
InvitationResponses ==
    [ok : {FALSE}, status : {400, 503}, invitedUserId : {NULL}]
    \cup
    [ok : {TRUE}, status : {201}, invitedUserId : {NULL, "guest-1"}]

NoInvitation == [ok |-> FALSE, status |-> 0, invitedUserId |-> NULL]

\* PATCH /users/{id} answers 204 or fails.
StampResponses == [ok : {FALSE}, status : {403, 503}] \cup [ok : {TRUE}, status : {204}]

NoStamp == [ok |-> FALSE, status |-> 0]

NoAuth == [authorized |-> FALSE, mode |-> NULL, status |-> 0, error |-> NULL,
           caller |-> NoBody]

NoResponse == [status |-> 0, kind |-> NULL, error |-> NULL]

\* decodeClientPrincipal: null without a header or when the header does not
\* decode to JSON.
NoPrincipal == [raw |-> "none", oidClaim |-> NULL, oidShort |-> NULL, userId |-> NULL]

decodeClientPrincipal(req) ==
    IF req.header.raw = "json" THEN req.header ELSE NoPrincipal

\* getCallerObjectId: the objectidentifier claim, else the oid claim, else
\* principal.userId, else null.
getCallerObjectId(principal) ==
    IF principal.oidClaim # NULL THEN principal.oidClaim
    ELSE IF principal.oidShort # NULL THEN principal.oidShort
    ELSE IF principal.userId # NULL THEN principal.userId
    ELSE NULL

\* A faulty LocalBypass that takes the bypass in the managed environment.
LocalBypassMutant == IS_AZURE_RUNTIME /\ ALLOW_LOCAL_ANONYMOUS_INVITE

\* authorizeInviter, line 131: the local bypass.
LocalBypass == ~IS_AZURE_RUNTIME /\ ALLOW_LOCAL_ANONYMOUS_INVITE

\* A faulty Misconfigured that tests for enforcement switched off.
MisconfiguredMutant ==
    /\ IS_AZURE_RUNTIME
    /\ ~ENFORCE_GROUP_MEMBERSHIP_IN_AZURE
    /\ Cardinality(ALLOWED_INVITER_GROUP_OBJECT_IDS) = 0

\* authorizeInviter, line 180: enforcement without an allow-list.
Misconfigured ==
    /\ IS_AZURE_RUNTIME
    /\ ENFORCE_GROUP_MEMBERSHIP_IN_AZURE
    /\ Cardinality(ALLOWED_INVITER_GROUP_OBJECT_IDS) = 0

\* A faulty shouldCheckGroupMembership that never checks in the managed
\* environment.
shouldCheckGroupMembershipMutant ==
    /\ Cardinality(ALLOWED_INVITER_GROUP_OBJECT_IDS) > 0
    /\ (~IS_AZURE_RUNTIME /\ ENFORCE_GROUP_MEMBERSHIP_IN_AZURE)

\* authorizeInviter, lines 188-190.
shouldCheckGroupMembership ==
    /\ Cardinality(ALLOWED_INVITER_GROUP_OBJECT_IDS) > 0
    /\ (~IS_AZURE_RUNTIME \/ ENFORCE_GROUP_MEMBERSHIP_IN_AZURE)

\* authorizeInviter, line 164: !caller?.id || caller.accountEnabled === false
NotActive(caller) == caller.id = NULL \/ caller.accountEnabled = "false"

Denied(status, error) ==
    [authorized |-> FALSE, mode |-> NULL, status |-> status, error |-> error,
     caller |-> NoBody]

Authorized(authMode, caller) ==
    [authorized |-> TRUE, mode |-> authMode, status |-> 0, error |-> NULL,
     caller |-> caller]

\* The handler's catch block: status e.status || 500.
Catch(status) ==
    /\ response' = [status |-> IF status = 0 THEN 500 ELSE status,
                    kind |-> "error", error |-> "Graph call failed"]
    /\ hpc' = "done"

\* A faulty AfterAuthorize that goes on to POST /invitations after a denial
\* too.
AfterAuthorizeMutant(auth) ==
    /\ inviterAuth' = auth
    /\ graphCalls' = Append(graphCalls, "POST /invitations")
    /\ hpc' = "awaitInvitation"
    /\ response' = response

\* The handler after authorizeInviter returned (lines 308-343): a denial is
\* answered, an authorization goes on to POST /invitations.
AfterAuthorize(auth) ==
    /\ inviterAuth' = auth
    /\ IF ~auth.authorized
       THEN /\ response' = [status |-> auth.status, kind |-> "denied",
                            error |-> auth.error]
            /\ hpc' = "done"
            /\ graphCalls' = graphCalls
       ELSE /\ graphCalls' = Append(graphCalls, "POST /invitations")
            /\ hpc' = "awaitInvitation"
            /\ response' = response

configVars ==
    << IS_AZURE_RUNTIME, ALLOW_LOCAL_ANONYMOUS_INVITE,
       ALLOWED_INVITER_GROUP_OBJECT_IDS, ENFORCE_GROUP_MEMBERSHIP_IN_AZURE >>

\* Lines 274-301: the body is read; a request without an email ends with 400.
HandlerReceive ==
    /\ hpc = "idle"
    /\ \E req \in Requests :
          /\ request' = req
          /\ IF req.email = NULL
             THEN /\ response' = [status |-> 400, kind |-> "bad_request",
                                  error |-> "email is required"]
                  /\ hpc' = "done"
             ELSE /\ response' = response
                  /\ hpc' = "token"
    /\ UNCHANGED << configVars, callerOid, profileRes, memberRes, inviterAuth,
                    invitation, stampRes, graphCalls >>
    /\ UNCHANGED << parseVars, formVars, submitVars >>

\* Lines 303-308 and authorizeInviter up to its first await (lines 131-162):
\* the token arrives (or getToken throws), then the bypass, the principal and
\* the object id are decided and the profile lookup is issued.
GetGraphAccessTokenReturns ==
    /\ hpc = "token"
    /\ \E ok \in BOOLEAN :
          IF ~ok
          THEN /\ Catch(0)
               /\ UNCHANGED << callerOid, inviterAuth, graphCalls >>
          ELSE IF LocalBypass
          THEN /\ AfterAuthorize(Authorized("local_bypass",
                      [id |-> "local-dev", accountEnabled |-> "absent",
                       userType |-> "Member"]))
               /\ UNCHANGED callerOid
          ELSE IF decodeClientPrincipal(request) = NoPrincipal
          THEN /\ AfterAuthorize(Denied(401,
                      "Unauthorized. Enable App Service Authentication and call this API as a signed-in internal user."))
               /\ UNCHANGED callerOid
          ELSE IF getCallerObjectId(decodeClientPrincipal(request)) = NULL
          THEN /\ AfterAuthorize(Denied(401,
                      "Unauthorized. Caller object ID claim is missing."))
               /\ UNCHANGED callerOid
          ELSE /\ callerOid' = getCallerObjectId(decodeClientPrincipal(request))
               /\ graphCalls' = Append(graphCalls, "GET /users/{callerOid}")
               /\ hpc' = "awaitProfile"
               /\ UNCHANGED << inviterAuth, response >>
    /\ UNCHANGED << configVars, request, profileRes, memberRes, invitation, stampRes >>
    /\ UNCHANGED << parseVars, formVars, submitVars >>

\* authorizeInviter, lines 158-198: the profile lookup returns.
ProfileLookupReturns ==
    /\ hpc = "awaitProfile"
    /\ \E res \in ProfileResponses(callerOid) :
          /\ profileRes' = res
          /\ IF ~res.ok
             THEN /\ Catch(res.status)
                  /\ UNCHANGED << inviterAuth, graphCalls >>
             ELSE IF NotActive(res.body)
             THEN AfterAuthorize(Denied(403, "Forbidden. Caller account is not active."))
             ELSE IF res.body.userType # "Member"
             THEN AfterAuthorize(Denied(403,
                      "Forbidden. Only tenant Member users can send invites."))
             ELSE IF Misconfigured
             THEN AfterAuthorize(Denied(500,
                      "Server misconfiguration. ALLOWED_INVITER_GROUP_OBJECT_IDS must be set in Azure."))
             ELSE IF shouldCheckGroupMembership
             THEN /\ graphCalls' = Append(graphCalls, "POST /users/{callerOid}/checkMemberGroups")
                  /\ hpc' = "awaitMembership"
                  /\ UNCHANGED << inviterAuth, response >>
             ELSE AfterAuthorize(Authorized("entra_authenticated", res.body))
    /\ UNCHANGED << configVars, request, callerOid, memberRes, invitation, stampRes >>
    /\ UNCHANGED << parseVars, formVars, submitVars >>

\* authorizeInviter, lines 193-214: checkMemberGroups returns.
MembershipCheckReturns ==
    /\ hpc = "awaitMembership"
    /\ \E res \in MemberResponses :
          /\ memberRes' = res
          /\ IF ~res.ok
             THEN /\ Catch(res.status)
                  /\ UNCHANGED << inviterAuth, graphCalls >>
             ELSE IF (IF res.isArray THEN Cardinality(res.value) ELSE 0) = 0
             THEN AfterAuthorize(Denied(403,
                      "Forbidden. Caller is not in the allowed inviter group."))
             ELSE AfterAuthorize(Authorized("entra_authenticated", profileRes.body))
    /\ UNCHANGED << configVars, request, callerOid, profileRes, invitation, stampRes >>
    /\ UNCHANGED << parseVars, formVars, submitVars >>

\* Lines 338-361: POST /invitations returns; with an invited user id the
\* attribute stamp is issued.
InvitationReturns ==
    /\ hpc = "awaitInvitation"
    /\ \E res \in InvitationResponses :
          /\ invitation' = res
          /\ IF ~res.ok
             THEN /\ Catch(res.status)
                  /\ UNCHANGED graphCalls
             ELSE IF res.invitedUserId = NULL
             THEN /\ response' = [status |-> 500, kind |-> "error",
                                  error |-> "Invite succeeded but invitedUser.id not returned"]
                  /\ hpc' = "done"
                  /\ UNCHANGED graphCalls
             ELSE /\ graphCalls' = Append(graphCalls, "PATCH /users/{invitedUserId}")
                  /\ hpc' = "awaitStamp"
                  /\ UNCHANGED response
    /\ UNCHANGED << configVars, request, callerOid, profileRes, memberRes, inviterAuth,
                    stampRes >>
    /\ UNCHANGED << parseVars, formVars, submitVars >>

\* A faulty StampReturns that answers 200 whatever the stamp call returned.
StampReturnsMutant ==
    /\ hpc = "awaitStamp"
    /\ \E res \in StampResponses :
          /\ stampRes' = res
          /\ response' = [status |-> 200, kind |-> "ok",
                          error |-> "invited_and_stamped"]
          /\ hpc' = "done"
    /\ UNCHANGED << configVars, request, callerOid, profileRes, memberRes,
                    inviterAuth, invitation, graphCalls >>
    /\ UNCHANGED << parseVars, formVars, submitVars >>

\* Lines 356-389: the stamp returns.
StampReturns ==
    /\ hpc = "awaitStamp"
    /\ \E res \in StampResponses :
          /\ stampRes' = res
          /\ IF ~res.ok
             THEN Catch(res.status)
             ELSE /\ response' = [status |-> 200, kind |-> "ok",
                                  error |-> "invited_and_stamped"]
                  /\ hpc' = "done"
    /\ UNCHANGED << configVars, request, callerOid, profileRes, memberRes,
                    inviterAuth, invitation, graphCalls >>
    /\ UNCHANGED << parseVars, formVars, submitVars >>

BackendInit ==
    /\ IS_AZURE_RUNTIME \in BOOLEAN
    /\ ALLOW_LOCAL_ANONYMOUS_INVITE \in BOOLEAN
    /\ ALLOWED_INVITER_GROUP_OBJECT_IDS \in SUBSET GroupIds
    /\ ENFORCE_GROUP_MEMBERSHIP_IN_AZURE \in BOOLEAN
    /\ hpc = "idle"
    /\ request = NoRequest
    /\ callerOid = NULL
    /\ profileRes = NoProfileRes
    /\ memberRes = NoMemberRes
    /\ inviterAuth = NoAuth
    /\ invitation = NoInvitation
    /\ stampRes = NoStamp
    /\ response = NoResponse
    /\ graphCalls = << >>

\* The other components at rest.
ParseIdle ==
    /\ parseMode = "manual"
    /\ parseText = << << >> >>
    /\ parseDefaults = [redirectUrl |-> << >>, sendEmail |-> TRUE,
                        customizedMessageBody |-> << >>, resetRedemption |-> FALSE]
    /\ parseResult = [entries |-> << >>, errors |-> << >>]
    /\ parsePc = "ready"
    /\ csvLine = << >>
    /\ csvFields = << >>

\* DEFAULT_REDIRECT_URL, part_000:9.
DEFAULT_REDIRECT_URL ==
    << "h", "t", "t", "p", "s", ":", "/", "/", "m", "y", "a", "p", "p", "l",
       "i", "c", "a", "t", "i", "o", "n", "s", ".", "m", "i", "c", "r", "o",
       "s", "o", "f", "t", ".", "c", "o", "m" >>

\* No result is shown (result is null).
NoResult == [kind |-> "none", ok |-> FALSE, data |-> NULL]

\* The form as the App component creates it (useState, part_000:264-280), with
\* no submission running; the two check boxes apart.
FormFresh ==
    /\ mode = "single"
    /\ email = << >>
    /\ firstName = << >>
    /\ lastName = << >>
    /\ redirectUrl = DEFAULT_REDIRECT_URL
    /\ customizedMessageBody = << >>
    /\ bulkInput = << << >> >>
    /\ bulkEntriesFromFile = << >>
    /\ bulkFileName = ""
    /\ loading = FALSE
    /\ result = NoResult
    /\ formPc = "idle"
    /\ entries = << >>
    /\ validationErrors = << >>
    /\ failures = << >>
    /\ calls = << >>
    /\ completed = 0
    /\ netScript = << >>

FormIdle ==
    /\ FormFresh
    /\ sendEmailFlag = TRUE
    /\ resetRedemptionFlag = FALSE

BackendNext ==
    \/ HandlerReceive
    \/ GetGraphAccessTokenReturns
    \/ ProfileLookupReturns
    \/ MembershipCheckReturns
    \/ InvitationReturns
    \/ StampReturns

Init == BackendInit /\ ParseIdle /\ FormIdle

Next == BackendNext

Spec == Init /\ [][Next]_vars

(***************************************************************************)
(* Web form: src/unnamed/part_000 -- pure helpers                          *)
(***************************************************************************)

MAX_NAME_LENGTH == 40

MAX_BULK_INVITES == 100

\* \s of the regular expressions, and what String.prototype.trim removes.
Whitespace == {" ", "\t"}

UpperLetters ==
    << "A", "B", "C", "D", "E", "F", "G", "H", "I", "J", "K", "L", "M",
       "N", "O", "P", "Q", "R", "S", "T", "U", "V", "W", "X", "Y", "Z" >>

LowerLetters ==
    << "a", "b", "c", "d", "e", "f", "g", "h", "i", "j", "k", "l", "m",
       "n", "o", "p", "q", "r", "s", "t", "u", "v", "w", "x", "y", "z" >>

SetMin(S) == CHOOSE x \in S : \A y \in S : x <= y

SetMax(S) == CHOOSE x \in S : \A y \in S : x >= y

toLowerChar(c) ==
    IF \E i \in 1..Len(UpperLetters) : UpperLetters[i] = c
    THEN LowerLetters[CHOOSE i \in 1..Len(UpperLetters) : UpperLetters[i] = c]
    ELSE c

\* String.prototype.toLowerCase
toLowerCase(s) == [i \in 1..Len(s) |-> toLowerChar(s[i])]

\* String.prototype.trim
trim(s) ==
    LET solid == {i \in 1..Len(s) : s[i] \notin Whitespace}
    IN  IF solid = {} THEN << >> ELSE SubSeq(s, SetMin(solid), SetMax(solid))

\* String.prototype.startsWith
startsWith(s, prefix) ==
    Len(s) >= Len(prefix) /\ SubSeq(s, 1, Len(prefix)) = prefix

\* String.prototype.includes
includes(s, needle) ==
    \E i \in 1..(Len(s) - Len(needle) + 1) : SubSeq(s, i, i + Len(needle) - 1) = needle

\* value.replace(/\s+/g, " "): each run of whitespace becomes one space.
RECURSIVE collapseWhitespace(_)
collapseWhitespace(s) ==
    IF s = << >> THEN << >>
    ELSE IF Head(s) \in Whitespace
    THEN IF Len(s) > 1 /\ s[2] \in Whitespace
         THEN collapseWhitespace(Tail(s))
         ELSE << " " >> \o collapseWhitespace(Tail(s))
    ELSE << Head(s) >> \o collapseWhitespace(Tail(s))

\* sanitizeName, lines 26-28.
sanitizeName(value) ==
    LET collapsed == collapseWhitespace(trim(value))
    IN  SubSeq(collapsed, 1, IF Len(collapsed) < MAX_NAME_LENGTH
                             THEN Len(collapsed) ELSE MAX_NAME_LENGTH)

\* normalizeEmail, lines 30-32.
normalizeEmail(value) == toLowerCase(trim(value))

\* getDisplayName, lines 34-36: [first, last].filter(Boolean).join(" ").trim()
getDisplayName(first, last) ==
    trim(IF first = << >> THEN last
         ELSE IF last = << >> THEN first
         ELSE first \o << " " >> \o last)

\* EMAIL_REGEX.test, line 6: /^[^\s@]+@[^\s@]+\.[^\s@]+$/
EMAIL_REGEX_test(s) ==
    \E i \in 1..Len(s) : \E j \in 1..Len(s) :
        /\ s[i] = "@"
        /\ s[j] = "."
        /\ 1 < i
        /\ i + 1 < j
        /\ j < Len(s)
        /\ \A k \in 1..Len(s) : k # i => s[k] \notin (Whitespace \cup {"@"})

\* A faulty CsvStep that splits at every comma, quoted or not.
CsvStepMutant(st, line, i) ==
    IF st.skip THEN [st EXCEPT !.skip = FALSE]
    ELSE IF line[i] = "\""
    THEN IF st.inQuotes /\ i + 1 <= Len(line) /\ line[i + 1] = "\""
         THEN [st EXCEPT !.current = Append(st.current, "\""), !.skip = TRUE]
         ELSE [st EXCEPT !.inQuotes = ~st.inQuotes]
    ELSE IF line[i] = ","
    THEN [st EXCEPT !.out = Append(st.out, trim(st.current)), !.current = << >>]
    ELSE [st EXCEPT !.current = Append(st.current, line[i])]

\* parseCsvLine, lines 86-106: one turn of the for loop at 1-based position
\* i. st holds out, current and inQuotes; st.skip is set when the turn before
\* consumed this character as the second quote of a doubled quote (i += 1).
CsvStep(st, line, i) ==
    IF st.skip THEN [st EXCEPT !.skip = FALSE]
    ELSE IF line[i] = "\""
    THEN IF st.inQuotes /\ i + 1 <= Len(line) /\ line[i + 1] = "\""
         THEN [st EXCEPT !.current = Append(st.current, "\""), !.skip = TRUE]
         ELSE [st EXCEPT !.inQuotes = ~st.inQuotes]
    ELSE IF line[i] = "," /\ ~st.inQuotes
    THEN [st EXCEPT !.out = Append(st.out, trim(st.current)), !.current = << >>]
    ELSE [st EXCEPT !.current = Append(st.current, line[i])]

\* The loop over positions lo..hi, from state st. The range is split in
\* halves and the first half is evaluated before the second is entered, which
\* keeps the evaluation shallow; the turns run in order lo, lo + 1, ..., hi.
RECURSIVE CsvScan(_, _, _, _)
CsvScan(line, lo, hi, st) ==
    IF lo > hi THEN st
    ELSE IF lo = hi THEN CsvStep(st, line, lo)
    ELSE LET mid   == (lo + hi) \div 2
             first == CsvScan(line, lo, mid, st)
         IN  IF first.skip \in BOOLEAN
             THEN CsvScan(line, mid + 1, hi, first)
             ELSE st

\* parseCsvLine, lines 81-110.
parseCsvLine(line) ==
    LET end == CsvScan(line, 1, Len(line),
                       [out |-> << >>, current |-> << >>, inQuotes |-> FALSE,
                        skip |-> FALSE])
    IN  Append(end.out, trim(end.current))

\* rawText.split(/\r?\n/).map(trim).filter(Boolean): the text is held as its
\* line segments, so the split is the identity on the representation.
NonBlankTrimmed(text) ==
    SelectSeq([i \in 1..Len(text) |-> trim(text[i])], LAMBDA l : l # << >>)

\* The concatenation of the sequences parts[lo], ..., parts[hi].
RECURSIVE Flatten(_, _, _)
Flatten(parts, lo, hi) ==
    IF lo > hi THEN << >>
    ELSE IF lo = hi THEN parts[lo]
    ELSE LET mid == (lo + hi) \div 2
         IN  Flatten(parts, lo, mid) \o Flatten(parts, mid + 1, hi)

\* The row field at a 0-based index, "" when the row is shorter (row[i] || "").
Cell(row, idx) == IF idx + 1 <= Len(row) THEN row[idx + 1] ELSE << >>

\* The message `Line ${n}: ${reason}` kept as its two parts.
LineError(n, reason) == [line |-> n, reason |-> reason]

\* A faulty ManualRow that drops a bad line without recording an error.
ManualRowMutant(line, index, defaults) ==
    LET row       == parseCsvLine(line)
        rowEmail     == normalizeEmail(Cell(row, 0))
        rowFirstName == sanitizeName(Cell(row, 1))
        rowLastName  == sanitizeName(Cell(row, 2))
    IN  IF ~EMAIL_REGEX_test(rowEmail)
        THEN [entries |-> << >>, errors |-> << >>]
        ELSE [entries |-> << [email |-> rowEmail,
                              firstName |-> rowFirstName,
                              lastName |-> rowLastName,
                              displayName |-> getDisplayName(rowFirstName, rowLastName),
                              inviteRedirectUrl |-> defaults.redirectUrl,
                              sendEmail |-> defaults.sendEmail,
                              customizedMessageBody |-> defaults.customizedMessageBody,
                              resetRedemption |-> defaults.resetRedemption] >>,
              errors  |-> << >>]

\* parseManualBulk, lines 121-142: the forEach callback on one line; index is
\* the 0-based position among the trimmed non-blank lines.
ManualRow(line, index, defaults) ==
    LET row       == parseCsvLine(line)
        rowEmail     == normalizeEmail(Cell(row, 0))
        rowFirstName == sanitizeName(Cell(row, 1))
        rowLastName  == sanitizeName(Cell(row, 2))
    IN  IF ~EMAIL_REGEX_test(rowEmail)
        THEN [entries |-> << >>,
              errors  |-> << LineError(index + 1, "invalid email") >>]
        ELSE [entries |-> << [email |-> rowEmail,
                              firstName |-> rowFirstName,
                              lastName |-> rowLastName,
                              displayName |-> getDisplayName(rowFirstName, rowLastName),
                              inviteRedirectUrl |-> defaults.redirectUrl,
                              sendEmail |-> defaults.sendEmail,
                              customizedMessageBody |-> defaults.customizedMessageBody,
                              resetRedemption |-> defaults.resetRedemption] >>,
              errors  |-> << >>]

\* parseManualBulk, lines 112-145: the callback runs on every trimmed
\* non-blank line in order, pushing to entries or to errors.
parseManualBulk(rawText, defaults) ==
    LET lines == NonBlankTrimmed(rawText)
        rows  == [k \in 1..Len(lines) |-> ManualRow(lines[k], k - 1, defaults)]
    IN  [entries |-> Flatten([k \in 1..Len(lines) |-> rows[k].entries], 1, Len(lines)),
         errors  |-> Flatten([k \in 1..Len(lines) |-> rows[k].errors], 1, Len(lines))]

\* The character U+FEFF, the byte-order mark.
BOM == "BOM"

\* The words the code looks for, as character sequences.
W_Example == << "E", "x", "a", "m", "p", "l", "e", ":" >>

W_example == << "e", "x", "a", "m", "p", "l", "e", ":" >>

W_inviteeEmail == << "[", "i", "n", "v", "i", "t", "e", "e", "E", "m", "a", "i", "l", "]" >>

W_inviteRedirectURL == << "[", "i", "n", "v", "i", "t", "e", "R", "e", "d", "i", "r", "e", "c",
   "t", "U", "R", "L", "]" >>

W_sendEmail == << "[", "s", "e", "n", "d", "E", "m", "a", "i", "l", "]" >>

W_customizedMessageBody == << "[", "c", "u", "s", "t", "o", "m", "i", "z", "e", "d", "M", "e", "s",
   "s", "a", "g", "e", "B", "o", "d", "y", "]" >>

W_true == << "t", "r", "u", "e" >>

W_false == << "f", "a", "l", "s", "e" >>

W_http == << "h", "t", "t", "p" >>

W_https == << "h", "t", "t", "p", "s" >>

W_localhost == << "l", "o", "c", "a", "l", "h", "o", "s", "t" >>

W_loopback == << "1", "2", "7", ".", "0", ".", "0", ".", "1" >>

\* The position of the first element of s that is in the set stop, or
\* Len(s) + 1 when there is none.
FirstIn(s, stop) ==
    LET hits == {i \in 1..Len(s) : s[i] \in stop}
    IN  IF hits = {} THEN Len(s) + 1 ELSE SetMin(hits)

RECURSIVE stripLeading(_, _)
stripLeading(s, chars) ==
    IF s # << >> /\ Head(s) \in chars THEN stripLeading(Tail(s), chars) ELSE s

\* new URL(value), as far as isValidHttpUrl reads it: the protocol and the
\* hostname, or a TypeError (ok = FALSE). A value without a scheme, or an
\* http(s) value without a host or with whitespace in it, does not parse.
\* User info and the validity of the port are not modelled.
URL(value) ==
    LET v      == trim(value)
        colon  == FirstIn(v, {":"})
        scheme == toLowerCase(SubSeq(v, 1, colon - 1))
        rest   == stripLeading(SubSeq(v, colon + 1, Len(v)), {"/", "\\"})
        auth   == SubSeq(rest, 1, FirstIn(rest, {"/", "?", "#"}) - 1)
        host   == toLowerCase(SubSeq(auth, 1, FirstIn(auth, {":"}) - 1))
    IN  IF \/ colon > Len(v)
           \/ scheme = << >>
           \/ \E i \in 1..Len(scheme) :
                 \A k \in 1..Len(LowerLetters) : LowerLetters[k] # scheme[i]
        THEN [ok |-> FALSE, protocol |-> << >>, hostname |-> << >>]
        ELSE IF scheme \notin {W_http, W_https}
        THEN [ok |-> TRUE, protocol |-> scheme, hostname |-> << >>]
        ELSE IF host = << >> \/ \E i \in 1..Len(auth) : auth[i] \in Whitespace
        THEN [ok |-> FALSE, protocol |-> << >>, hostname |-> << >>]
        ELSE [ok |-> TRUE, protocol |-> scheme, hostname |-> host]

\* isValidHttpUrl, lines 11-24.
isValidHttpUrl(value) ==
    IF value = << >> THEN FALSE
    ELSE LET url == URL(value)
         IN  IF ~url.ok THEN FALSE
             ELSE IF url.protocol \notin {W_http, W_https} THEN FALSE
             ELSE IF url.protocol = W_http /\ url.hostname \notin {W_localhost, W_loopback}
             THEN FALSE
             ELSE TRUE

\* parseBoolean, lines 38-43, on the text String(value || "").
parseBoolean(value, fallback) ==
    LET normalized == toLowerCase(trim(value))
    IN  IF normalized = W_true THEN TRUE
        ELSE IF normalized = W_false THEN FALSE
        ELSE fallback

\* headers.findIndex((h) => h.includes(name)): 0-based, -1 when absent.
findIndex(headers, name) ==
    LET hits == {i \in 1..Len(headers) : includes(headers[i], name)}
    IN  IF hits = {} THEN -1 ELSE SetMin(hits) - 1

\* value.replace(/^Example:\s*/i, "")
stripExamplePrefix(value) ==
    IF startsWith(toLowerCase(value), W_example)
    THEN stripLeading(SubSeq(value, Len(W_example) + 1, Len(value)), Whitespace)
    ELSE value

\* rawText.replace(/^\uFEFF/, "")
stripBOM(rawText) ==
    IF rawText # << >> /\ rawText[1] # << >> /\ rawText[1][1] = BOM
    THEN [rawText EXCEPT ![1] = Tail(rawText[1])]
    ELSE rawText

\* parseEntraTemplateCsv, line 180: the rows the loop passes over.
SkipsRow(rawEmail) == rawEmail = << >> \/ startsWith(rawEmail, W_Example)

\* parseEntraTemplateCsv, lines 177-205: the loop body on lines[i] (0-based).
TemplateRow(line, i, emailIdx, redirectIdx, sendEmailIdx, messageIdx, defaults) ==
    LET row      == parseCsvLine(line)
        rawEmail == stripExamplePrefix(Cell(row, emailIdx))
        rowEmail    == normalizeEmail(rawEmail)
        redirect == trim(Cell(row, redirectIdx))
    IN  IF SkipsRow(rawEmail)
        THEN [entries |-> << >>, errors |-> << >>]
        ELSE IF ~EMAIL_REGEX_test(rowEmail)
        THEN [entries |-> << >>,
              errors  |-> << LineError(i + 1, "invalid inviteeEmail") >>]
        ELSE IF ~isValidHttpUrl(redirect)
        THEN [entries |-> << >>,
              errors  |-> << LineError(i + 1, "invalid inviteRedirectURL") >>]
        ELSE [entries |-> << [email |-> rowEmail,
                              firstName |-> << >>,
                              lastName |-> << >>,
                              displayName |-> << >>,
                              inviteRedirectUrl |-> redirect,
                              sendEmail |-> parseBoolean(
                                  IF sendEmailIdx >= 0 THEN Cell(row, sendEmailIdx)
                                  ELSE W_true, TRUE),
                              customizedMessageBody |->
                                  IF messageIdx >= 0 THEN trim(Cell(row, messageIdx))
                                  ELSE << >>,
                              resetRedemption |-> defaults.resetRedemption] >>,
              errors  |-> << >>]

\* parseEntraTemplateCsv, lines 147-208. The two file-level messages carry no
\* line number (line 0).
parseEntraTemplateCsv(rawText, defaults) ==
    LET lines == NonBlankTrimmed(stripBOM(rawText))
    IN  IF Len(lines) < 2
        THEN [entries |-> << >>,
              errors  |-> << LineError(0,
                  "CSV is invalid. Expected version row and header row.") >>]
        ELSE LET headers     == parseCsvLine(lines[2])
                 emailIdx    == findIndex(headers, W_inviteeEmail)
                 redirectIdx == findIndex(headers, W_inviteRedirectURL)
                 sendEmailIdx == findIndex(headers, W_sendEmail)
                 messageIdx  == findIndex(headers, W_customizedMessageBody)
             IN  IF emailIdx < 0 \/ redirectIdx < 0
                 THEN [entries |-> << >>,
                       errors  |-> << LineError(0,
                           "CSV missing required columns: [inviteeEmail] and/or [inviteRedirectURL].") >>]
                 ELSE LET rows == [k \in 3..Len(lines) |->
                                      TemplateRow(lines[k], k - 1, emailIdx, redirectIdx,
                                                  sendEmailIdx, messageIdx, defaults)]
                      IN  [entries |-> Flatten([k \in 3..Len(lines) |-> rows[k].entries],
                                               3, Len(lines)),
                           errors  |-> Flatten([k \in 3..Len(lines) |-> rows[k].errors],
                                               3, Len(lines))]

(***************************************************************************)
(* The bulk parsers applied to bounded inputs (SpecParse)                  *)
(***************************************************************************)

\* The longest text, in lines (data rows of a template file).
MaxLines == 3

\* All sequences over S with at most n elements.
RECURSIVE SeqsUpTo(_, _)
SeqsUpTo(S, n) ==
    IF n = 0 THEN {<< >>}
    ELSE LET shorter == SeqsUpTo(S, n - 1)
         IN  shorter \cup {Append(t, x) : t \in {u \in shorter : Len(u) = n - 1}, x \in S}

\* Lines of free-form input: blank, blank with spaces, a plain address, an
\* address in capitals with names and a quoted comma, an address without a
\* dot, a quoted address.
ManualLines ==
    { << >>,
      << " ", "\t" >>,
      << "a", "@", "b", ".", "c" >>,
      << " ", "B", "@", "b", ".", "C", " ", ",", "J", " ", " ", "o", ",", "\"",
         "X", ",", "y", "\"" >>,
      << "a", "@", "b" >>,
      << "\"", "c", "@", "d", ".", "e", "\"", ",", "z" >> }

ManualTexts == SeqsUpTo(ManualLines, MaxLines) \ {<< >>}

ManualDefaults ==
    [redirectUrl : {<< "h", "t", "t", "p", "s", ":", "/", "/", "h", ".", "c" >>}, sendEmail : BOOLEAN,
     customizedMessageBody : {<< >>}, resetRedemption : BOOLEAN]

\* Lines of a template file.
VersionLine == << "v", "e", "r", "s", "i", "o", "n", ":", "v", "1", ".", "0" >>

HeaderFull ==
    << "E", "m", "a", "i", "l", " ", "[", "i", "n", "v", "i", "t", "e", "e",
       "E", "m", "a", "i", "l", "]", " ", "R", "e", "q", "u", "i", "r", "e",
       "d", ",", "U", "R", "L", " ", "[", "i", "n", "v", "i", "t", "e", "R",
       "e", "d", "i", "r", "e", "c", "t", "U", "R", "L", "]", ",", "[", "s",
       "e", "n", "d", "E", "m", "a", "i", "l", "]", ",", "[", "c", "u", "s",
       "t", "o", "m", "i", "z", "e", "d", "M", "e", "s", "s", "a", "g", "e",
       "B", "o", "d", "y", "]" >>

HeaderSwapped == << "[", "i", "n", "v", "i", "t", "e", "R", "e", "d", "i", "r", "e", "c",
   "t", "U", "R", "L", "]", ",", "[", "i", "n", "v", "i", "t", "e", "e",
   "E", "m", "a", "i", "l", "]" >>

HeaderNoRedirect == << "[", "i", "n", "v", "i", "t", "e", "e", "E", "m", "a", "i", "l", "]",
   ",", "[", "s", "e", "n", "d", "E", "m", "a", "i", "l", "]" >>

\* Data rows: blank, the template's example row, a usable row whose
\* sendEmail cell is "false", a row with the redirect first (usable under
\* HeaderSwapped, an invalid email otherwise), a row with a plain-http
\* redirect, a row with a blank email, a usable row whose sendEmail cell is
\* neither "true" nor "false".
TemplateDataRows ==
    { << >>,
      << "E", "x", "a", "m", "p", "l", "e", ":", " ", "f", "o", "o", "@", "b",
         "a", "r", ".", "c", "o", "m", ",", "h", "t", "t", "p", "s", ":", "/",
         "/", "h", ".", "c", ",", "T", "R", "U", "E" >>,
      << "a", "@", "b", ".", "c", ",", "h", "t", "t", "p", "s", ":", "/", "/",
         "h", ".", "c", ",", "f", "a", "l", "s", "e", ",", "h", "i" >>,
      << "h", "t", "t", "p", "s", ":", "/", "/", "h", ".", "c", ",", "e", "@",
         "f", ".", "g" >>,
      << "c", "@", "d", ".", "e", ",", "h", "t", "t", "p", ":", "/", "/", "h", ".", "c" >>,
      << ",", "h", "t", "t", "p", "s", ":", "/", "/", "h", ".", "c" >>,
      << "d", "@", "e", ".", "f", ",", "h", "t", "t", "p", "s", ":", "/", "/",
         "h", ".", "c", ",", " ", "y", "e", "s" >> }

TemplateTexts ==
    { << << >> >>, << VersionLine >> }
    \cup { << VersionLine, HeaderFull >> \o rows :
              rows \in SeqsUpTo(TemplateDataRows, MaxLines) }
    \cup { << VersionLine, HeaderSwapped >> \o rows :
              rows \in SeqsUpTo(TemplateDataRows, MaxLines - 1) }
    \cup { << VersionLine, HeaderNoRedirect >> \o rows :
              rows \in SeqsUpTo(TemplateDataRows, 1) }
    \cup { << << BOM >> \o VersionLine, HeaderFull >> \o rows :
              rows \in SeqsUpTo(TemplateDataRows, 1) }

\* onBulkFileChange passes { resetRedemption } alone (line 314); the other
\* fields are not read by the templated parser.
TemplateDefaults ==
    [redirectUrl : {<< >>}, sendEmail : {TRUE},
     customizedMessageBody : {<< >>}, resetRedemption : BOOLEAN]

\* The backend at rest.
BackendIdle ==
    /\ IS_AZURE_RUNTIME = FALSE
    /\ ALLOW_LOCAL_ANONYMOUS_INVITE = TRUE
    /\ ALLOWED_INVITER_GROUP_OBJECT_IDS = {}
    /\ ENFORCE_GROUP_MEMBERSHIP_IN_AZURE = TRUE
    /\ hpc = "idle"
    /\ request = NoRequest
    /\ callerOid = NULL
    /\ profileRes = NoProfileRes
    /\ memberRes = NoMemberRes
    /\ inviterAuth = NoAuth
    /\ invitation = NoInvitation
    /\ stampRes = NoStamp
    /\ response = NoResponse
    /\ graphCalls = << >>

InitParse ==
    /\ BackendIdle
    /\ FormFresh
    /\ sendEmailFlag \in BOOLEAN
    /\ resetRedemptionFlag \in BOOLEAN
    /\ parseMode \in {"manual", "template"}
    /\ parseText \in (IF parseMode = "manual" THEN ManualTexts ELSE TemplateTexts)
    /\ parseDefaults \in
          (IF parseMode = "manual"
           THEN {d \in ManualDefaults : /\ d.sendEmail = sendEmailFlag
                                        /\ d.resetRedemption = resetRedemptionFlag}
           ELSE {d \in TemplateDefaults : d.resetRedemption = resetRedemptionFlag})
    /\ parseResult = [entries |-> << >>, errors |-> << >>]
    /\ parsePc = "ready"
    /\ csvLine = << >>
    /\ csvFields = << >>

\* parseManualBulk(rawText, defaults) is called.
RunParseManualBulk ==
    /\ parsePc = "ready"
    /\ parseMode = "manual"
    /\ parseResult' = parseManualBulk(parseText, parseDefaults)
    /\ parsePc' = "parsed"
    /\ UNCHANGED << parseMode, parseText, parseDefaults, csvLine, csvFields >>
    /\ UNCHANGED << backendVars, formVars, submitVars >>

\* parseEntraTemplateCsv(rawText, defaults) is called.
RunParseEntraTemplateCsv ==
    /\ parsePc = "ready"
    /\ parseMode = "template"
    /\ parseResult' = parseEntraTemplateCsv(parseText, parseDefaults)
    /\ parsePc' = "parsed"
    /\ UNCHANGED << parseMode, parseText, parseDefaults, csvLine, csvFields >>
    /\ UNCHANGED << backendVars, formVars, submitVars >>

ParseNext ==
    \/ RunParseManualBulk
    \/ RunParseEntraTemplateCsv

SpecParse == InitParse /\ [][ParseNext]_vars

(***************************************************************************)
(* parseCsvLine applied to bounded lines (SpecCsv)                         *)
(***************************************************************************)

\* The longest line of SpecCsv, and the characters its lines are made of: a
\* letter, the comma, the double quote and the space.
MaxLineLen == 5

CsvAlphabet == {"a", ",", "\"", " "}

CsvLines == SeqsUpTo(CsvAlphabet, MaxLineLen)

InitCsv ==
    /\ BackendIdle
    /\ FormIdle
    /\ parseMode = "csv"
    /\ parseText = << << >> >>
    /\ parseDefaults = [redirectUrl |-> << >>, sendEmail |-> TRUE,
                        customizedMessageBody |-> << >>, resetRedemption |-> FALSE]
    /\ parseResult = [entries |-> << >>, errors |-> << >>]
    /\ parsePc = "ready"
    /\ csvLine \in CsvLines
    /\ csvFields = << >>

\* parseCsvLine(line) is called.
RunParseCsvLine ==
    /\ parsePc = "ready"
    /\ parseMode = "csv"
    /\ csvFields' = parseCsvLine(csvLine)
    /\ parsePc' = "parsed"
    /\ UNCHANGED << parseMode, parseText, parseDefaults, parseResult, csvLine >>
    /\ UNCHANGED << backendVars, formVars, submitVars >>

CsvNext == RunParseCsvLine

SpecCsv == InitCsv /\ [][CsvNext]_vars

(***************************************************************************)
(* The web form: sendInvite and the bulk branch of inviteGuest              *)
(***************************************************************************)

\* An object without keys.
NoKeys == [k \in {} |-> TRUE]

\* A faulty buildInvitePayload that leaves out the key inviteRedirectURL.
buildInvitePayloadMutant(payload) ==
    ("email" :> payload.email)
    @@ ("displayName" :> payload.displayName)
    @@ (IF payload.firstName # << >> THEN "firstName" :> payload.firstName ELSE NoKeys)
    @@ (IF payload.lastName # << >> THEN "lastName" :> payload.lastName ELSE NoKeys)
    @@ (IF payload.inviteRedirectUrl # << >>
        THEN "inviteRedirectUrl" :> payload.inviteRedirectUrl
        ELSE NoKeys)
    @@ (IF payload.sendEmail \in BOOLEAN THEN "sendEmail" :> payload.sendEmail ELSE NoKeys)
    @@ (IF payload.customizedMessageBody # << >>
        THEN "customizedMessageBody" :> payload.customizedMessageBody
        ELSE NoKeys)
    @@ (IF payload.resetRedemption \in BOOLEAN
        THEN "resetRedemption" :> payload.resetRedemption
        ELSE NoKeys)

\* buildInvitePayload, lines 57-74: the request body, a function from the keys
\* it carries to their values. A key whose value is falsy ("") is left out.
buildInvitePayload(payload) ==
    ("email" :> payload.email)
    @@ ("displayName" :> payload.displayName)
    @@ (IF payload.firstName # << >> THEN "firstName" :> payload.firstName ELSE NoKeys)
    @@ (IF payload.lastName # << >> THEN "lastName" :> payload.lastName ELSE NoKeys)
    @@ (IF payload.inviteRedirectUrl # << >>
        THEN ("inviteRedirectUrl" :> payload.inviteRedirectUrl)
             @@ ("inviteRedirectURL" :> payload.inviteRedirectUrl)
        ELSE NoKeys)
    @@ (IF payload.sendEmail \in BOOLEAN THEN "sendEmail" :> payload.sendEmail ELSE NoKeys)
    @@ (IF payload.customizedMessageBody # << >>
        THEN "customizedMessageBody" :> payload.customizedMessageBody
        ELSE NoKeys)
    @@ (IF payload.resetRedemption \in BOOLEAN
        THEN "resetRedemption" :> payload.resetRedemption
        ELSE NoKeys)

\* A response text: empty, a JSON object, or anything else. Of a JSON object
\* the model keeps the five fields safeResponse reads (NULL when absent or not
\* a string) and one field it does not read.
NoText ==
    [form |-> "empty", message |-> NULL, status |-> NULL, code |-> NULL,
     error |-> NULL, detail |-> NULL, inviteRedeemUrl |-> NULL]

\* What the awaited fetch of sendInvite (line 215) can end in: a response, a
\* rejection (network failure) or the abort of the 12 s timer (line 212).
InvitedResponse ==
    [kind |-> "response", ok |-> TRUE, status |-> 200,
     text |-> [NoText EXCEPT !.form = "object", !.status = "invited_and_stamped",
                             !.inviteRedeemUrl = "https://r"]]

ForbiddenResponse ==
    [kind |-> "response", ok |-> FALSE, status |-> 403,
     text |-> [NoText EXCEPT !.form = "object",
                             !.error = "Forbidden. Your account is not in an allowed inviter group.",
                             !.status = "forbidden"]]

NetworkFailure == [kind |-> "network", ok |-> FALSE, status |-> 0, text |-> NoText]

TimedOut == [kind |-> "timeout", ok |-> FALSE, status |-> 0, text |-> NoText]

Outcomes == {InvitedResponse, ForbiddenResponse, NetworkFailure, TimedOut}

\* safeResponse returned null.
NoSafe ==
    [isNull |-> TRUE, message |-> NULL, status |-> NULL, code |-> NULL,
     error |-> NULL, detail |-> NULL]

\* safeResponse, lines 45-55, applied to the parsed text.
safeResponse(text) ==
    IF text.form # "object" THEN NoSafe
    ELSE IF /\ text.message = NULL /\ text.status = NULL /\ text.code = NULL
            /\ text.error = NULL /\ text.detail = NULL
    THEN NoSafe
    ELSE [isNull |-> FALSE, message |-> text.message, status |-> text.status,
          code |-> text.code, error |-> text.error, detail |-> text.detail]

\* The template string of line 241.
HttpError(status) ==
    CASE status = 400 -> "Invite failed with HTTP 400. Check API permissions and payload format."
      [] status = 401 -> "Invite failed with HTTP 401. Check API permissions and payload format."
      [] status = 403 -> "Invite failed with HTTP 403. Check API permissions and payload format."
      [] status = 404 -> "Invite failed with HTTP 404. Check API permissions and payload format."
      [] status = 500 -> "Invite failed with HTTP 500. Check API permissions and payload format."
      [] OTHER -> "Invite failed with HTTP <status>. Check API permissions and payload format."

\* The data object of a sendInvite result; backendResponse is the response
\* text (at most 280 characters of it, texts here are shorter).
NoData ==
    [message |-> NULL, status |-> NULL, code |-> NULL, error |-> NULL,
     detail |-> NULL, backendResponse |-> NoText]

\* sendInvite, lines 210-261, from the point where the fetch has ended.
sendInvite(outcome) ==
    IF outcome.kind = "timeout"
    THEN [ok |-> FALSE, data |-> [NoData EXCEPT !.error = "Request timed out. Try again."]]
    ELSE IF outcome.kind = "network"
    THEN [ok |-> FALSE,
          data |-> [NoData EXCEPT !.error = "Network request failed. Check connection and API URL."]]
    ELSE LET payloadSafe == safeResponse(outcome.text)
             safeData    == [NoData EXCEPT !.message = payloadSafe.message,
                                           !.status = payloadSafe.status,
                                           !.code = payloadSafe.code,
                                           !.error = payloadSafe.error,
                                           !.detail = payloadSafe.detail]
         IN  IF ~outcome.ok
             THEN [ok |-> FALSE,
                   data |-> [safeData EXCEPT
                       !.error = IF payloadSafe.error \notin {NULL, ""}
                                 THEN payloadSafe.error
                                 ELSE HttpError(outcome.status),
                       !.backendResponse = IF outcome.text.form # "empty"
                                           THEN outcome.text ELSE NoText]]
             ELSE [ok |-> TRUE,
                   data |-> IF payloadSafe.isNull
                            THEN [NoData EXCEPT !.message = "Invite sent."]
                            ELSE safeData]

\* setResult({ ok: false, data: { error } }); rows is the number an error
\* message embeds (0 when it embeds none).
ErrorResult(error, rows) ==
    [kind |-> "error", ok |-> FALSE, data |-> [error |-> error, rows |-> rows]]

\* A faulty FileEntries that keeps the flag captured when the file was parsed.
FileEntriesMutant(fileEntries, flag) == fileEntries

\* inviteGuest, lines 387-391: the entries of an uploaded file take the reset
\* flag of the moment of submission.
FileEntries(fileEntries, flag) ==
    [k \in 1..Len(fileEntries) |-> [fileEntries[k] EXCEPT !.resetRedemption = flag]]

\* A faulty OverLimit that refuses a batch of exactly MAX_BULK_INVITES rows.
OverLimitMutant(n) == n >= MAX_BULK_INVITES

\* inviteGuest, line 418.
OverLimit(n) == n > MAX_BULK_INVITES

\* A faulty LoopContinues that leaves the loop at the first failed call.
LoopContinuesMutant(k, n, ok) == k < n /\ ok

\* inviteGuest, lines 429-434: after the call for entry k of n has returned,
\* the loop goes on to entry k + 1 whatever the call returned.
LoopContinues(k, n, ok) == k < n

\* The most rows a typed text or an uploaded file of SpecBulk holds.
MaxRows == 2

\* How many of a submission's first calls the network answers freely; later
\* calls repeat these answers in turn.
FreeCalls == MaxRows

NetworkChoices(k) ==
    IF k <= FreeCalls THEN Outcomes
    ELSE {netScript[((k - 1) % FreeCalls) + 1]}

\* The summary of lines 436-446.
Summary(fromFile, failed) ==
    [kind |-> "summary",
     ok   |-> Len(failed) = 0 /\ Len(validationErrors) = 0,
     data |-> [source     |-> [kind |-> IF fromFile THEN "file" ELSE "manual",
                               name |-> IF fromFile THEN bulkFileName ELSE ""],
               totalRows   |-> Len(entries) + Len(validationErrors),
               validRows   |-> Len(entries),
               invalidRows |-> validationErrors,
               invited     |-> Len(entries) - Len(failed),
               failed      |-> Len(failed),
               failures    |-> failed]]

\* onChange of the two check boxes, lines 536 and 547.
SetSendEmailFlag ==
    /\ formPc = "idle"
    /\ sendEmailFlag' = ~sendEmailFlag
    /\ UNCHANGED << mode, email, firstName, lastName, redirectUrl, resetRedemptionFlag,
                    customizedMessageBody, bulkInput, bulkEntriesFromFile, bulkFileName,
                    loading, result >>
    /\ UNCHANGED << submitVars, backendVars, parseVars >>

SetResetRedemptionFlag ==
    /\ formPc = "idle"
    /\ resetRedemptionFlag' = ~resetRedemptionFlag
    /\ UNCHANGED << mode, email, firstName, lastName, redirectUrl, sendEmailFlag,
                    customizedMessageBody, bulkInput, bulkEntriesFromFile, bulkFileName,
                    loading, result >>
    /\ UNCHANGED << submitVars, backendVars, parseVars >>

\* The texts typed into the bulk text area and the files uploaded.
BulkLines ==
    { << "a", "@", "b", ".", "c" >>,
      << " ", "B", "@", "b", ".", "C", ",", " ", "B", "o" >>,
      << "n", "o", "b", "o", "d", "y" >> }

BulkTexts == SeqsUpTo(BulkLines, MaxRows) \ {<< >>}

BulkFileRows ==
    { << "a", "@", "b", ".", "c", ",", "h", "t", "t", "p", "s", ":", "/", "/",
         "h", ".", "c", ",", "f", "a", "l", "s", "e", ",", "h", "i" >>,
      << "b", "@", "b", ".", "c", ",", "h", "t", "t", "p", "s", ":", "/", "/",
         "h", ".", "c" >>,
      << "a", "b", ",", "h", "t", "t", "p", "s", ":", "/", "/", "h", ".", "c" >> }

BulkFiles ==
    { [name |-> "invite.csv", readable |-> TRUE,
       text |-> << VersionLine, HeaderFull >> \o rows] :
          rows \in SeqsUpTo(BulkFileRows, MaxRows) }
    \cup { [name |-> "broken.csv", readable |-> FALSE, text |-> << << >> >>] }

\* parseEntraTemplateCsv(text, { resetRedemption }) of line 314 on the files
\* of the model, computed once per file and flag.
ParsedUpload ==
    [file \in {f \in BulkFiles : f.readable} |->
        [flag \in BOOLEAN |->
            parseEntraTemplateCsv(file.text, [resetRedemption |-> flag])]]

\* onChange of the text area, lines 614-619.
onBulkInputChange ==
    /\ formPc = "idle"
    /\ mode = "bulk"
    /\ \E value \in BulkTexts :
          /\ value # bulkInput
          /\ bulkInput' = value
    /\ IF Len(bulkEntriesFromFile) > 0
       THEN /\ bulkEntriesFromFile' = << >>
            /\ bulkFileName' = ""
       ELSE UNCHANGED << bulkEntriesFromFile, bulkFileName >>
    /\ UNCHANGED << mode, email, firstName, lastName, redirectUrl, sendEmailFlag,
                    resetRedemptionFlag, customizedMessageBody, loading, result >>
    /\ UNCHANGED << submitVars, backendVars, parseVars >>

\* onBulkFileChange, lines 308-330, with a file chosen.
onBulkFileChange ==
    /\ formPc = "idle"
    /\ mode = "bulk"
    /\ \E file \in BulkFiles :
          IF file.readable
          THEN LET parsed == ParsedUpload[file][resetRedemptionFlag]
               IN  /\ bulkEntriesFromFile' = parsed.entries
                   /\ bulkFileName' = file.name
                   /\ result' = [kind |-> "fileParsed",
                                 ok   |-> Len(parsed.errors) = 0,
                                 data |-> [parsedFromFile |-> file.name,
                                           validRows      |-> Len(parsed.entries),
                                           invalidRows    |-> parsed.errors]]
          ELSE /\ bulkEntriesFromFile' = << >>
               /\ bulkFileName' = file.name
               /\ result' = ErrorResult("Unable to read the uploaded CSV.", 0)
    /\ UNCHANGED << mode, email, firstName, lastName, redirectUrl, sendEmailFlag,
                    resetRedemptionFlag, customizedMessageBody, bulkInput, loading >>
    /\ UNCHANGED << submitVars, backendVars, parseVars >>

\* inviteGuest in bulk mode, lines 332-342 and 384-430: from the submit event
\* to the first awaited sendInvite, or to the return that reports an error.
\* The submit button is disabled while loading (line 629).
inviteGuestBulk ==
    /\ formPc = "idle"
    /\ mode = "bulk"
    /\ ~loading
    /\ LET fromFile   == Len(bulkEntriesFromFile) > 0
           redirectOk == isValidHttpUrl(trim(redirectUrl))
           parsed     ==
               IF fromFile
               THEN [entries |-> FileEntries(bulkEntriesFromFile, resetRedemptionFlag),
                     errors  |-> << >>]
               ELSE IF redirectOk
               THEN parseManualBulk(bulkInput,
                        [redirectUrl           |-> trim(redirectUrl),
                         sendEmail             |-> sendEmailFlag,
                         customizedMessageBody |-> trim(customizedMessageBody),
                         resetRedemption       |-> resetRedemptionFlag])
               ELSE [entries |-> << >>, errors |-> << >>]
           refusal    ==
               IF ~fromFile /\ ~redirectOk
               THEN ErrorResult("Please enter a valid redirect URL for bulk invites.", 0)
               ELSE IF Len(parsed.entries) = 0
               THEN ErrorResult("No valid rows found. Upload Entra CSV or add manual rows.", 0)
               ELSE IF OverLimit(Len(parsed.entries))
               THEN ErrorResult("Bulk invite limit is <MAX_BULK_INVITES> rows per submission.",
                                MAX_BULK_INVITES)
               ELSE NoResult
       IN  /\ entries' = parsed.entries
           /\ validationErrors' = parsed.errors
           /\ failures' = << >>
           /\ completed' = 0
           /\ netScript' = << >>
           /\ result' = refusal
           /\ IF refusal # NoResult
              THEN /\ loading' = FALSE
                   /\ calls' = << >>
                   /\ formPc' = "done"
              ELSE /\ loading' = TRUE
                   /\ calls' = << buildInvitePayload(parsed.entries[1]) >>
                   /\ formPc' = "sending"
    /\ UNCHANGED << mode, email, firstName, lastName, redirectUrl, sendEmailFlag,
                    resetRedemptionFlag, customizedMessageBody, bulkInput,
                    bulkEntriesFromFile, bulkFileName >>
    /\ UNCHANGED << backendVars, parseVars >>

\* inviteGuest in bulk mode, lines 429-454: the awaited sendInvite returns; the
\* loop records a failure and goes on to the next entry, or ends and the
\* summary is shown.
BulkInviteReturns ==
    /\ formPc = "sending"
    /\ mode = "bulk"
    /\ \E outcome \in NetworkChoices(completed + 1) :
          LET k        == completed + 1
              inviteResponse == sendInvite(outcome)
              failed   == IF ~inviteResponse.ok
                          THEN Append(failures,
                                   [email |-> entries[k].email,
                                    error |-> IF inviteResponse.data.error \notin {NULL, ""}
                                              THEN inviteResponse.data.error
                                              ELSE "Invite failed"])
                          ELSE failures
              fromFile == Len(bulkEntriesFromFile) > 0
          IN  /\ completed' = k
              /\ failures' = failed
              /\ netScript' = IF k <= FreeCalls THEN Append(netScript, outcome)
                              ELSE netScript
              /\ IF LoopContinues(k, Len(entries), inviteResponse.ok)
                 THEN /\ calls' = Append(calls, buildInvitePayload(entries[k + 1]))
                      /\ UNCHANGED << formPc, result, loading, bulkInput,
                                      bulkEntriesFromFile, bulkFileName >>
                 ELSE /\ result' = Summary(fromFile, failed)
                      /\ IF Len(failed) = 0 /\ Len(validationErrors) = 0
                         THEN /\ bulkInput' = << << >> >>
                              /\ bulkEntriesFromFile' = << >>
                              /\ bulkFileName' = ""
                         ELSE UNCHANGED << bulkInput, bulkEntriesFromFile, bulkFileName >>
                      /\ loading' = FALSE
                      /\ formPc' = "done"
                      /\ UNCHANGED calls
    /\ UNCHANGED << mode, email, firstName, lastName, redirectUrl, sendEmailFlag,
                    resetRedemptionFlag, customizedMessageBody >>
    /\ UNCHANGED << entries, validationErrors, backendVars, parseVars >>

\* The form in bulk mode (the Bulk Invite tab, lines 509-512), nothing typed.
InitBulk ==
    /\ BackendIdle
    /\ ParseIdle
    /\ mode = "bulk"
    /\ email = << >>
    /\ firstName = << >>
    /\ lastName = << >>
    /\ redirectUrl = DEFAULT_REDIRECT_URL
    /\ sendEmailFlag = TRUE
    /\ resetRedemptionFlag = FALSE
    /\ customizedMessageBody = << >>
    /\ bulkInput = << << >> >>
    /\ bulkEntriesFromFile = << >>
    /\ bulkFileName = ""
    /\ loading = FALSE
    /\ result = NoResult
    /\ formPc = "idle"
    /\ entries = << >>
    /\ validationErrors = << >>
    /\ failures = << >>
    /\ calls = << >>
    /\ completed = 0
    /\ netScript = << >>

BulkNext ==
    \/ SetSendEmailFlag
    \/ SetResetRedemptionFlag
    \/ onBulkInputChange
    \/ onBulkFileChange
    \/ inviteGuestBulk
    \/ BulkInviteReturns

SpecBulk == InitBulk /\ [][BulkNext]_vars

(***************************************************************************)
(* Submissions around the bulk limit (SpecCap)                             *)
(***************************************************************************)

\* n copies of a line.
Repeat(line, n) == [k \in 1..n |-> line]

\* The row counts on both sides of the limit.
CapCounts == {1, MAX_BULK_INVITES, MAX_BULK_INVITES + 1}

CapTexts ==
    { Repeat(<< "a", "@", "b", ".", "c" >>, n) \o bad :
          n \in CapCounts,
          bad \in { << >>, << << "n", "o", "b", "o", "d", "y" >> >> } }

CapFiles ==
    { << VersionLine, HeaderFull >>
          \o Repeat(<< "a", "@", "b", ".", "c", ",", "h", "t", "t", "p", "s", ":", "/", "/",
                       "h", ".", "c" >>, n)
          \o bad :
          n \in CapCounts,
          bad \in { << >>, << << "a", "b", ",", "h", "t", "t", "p", "s", ":", "/", "/", "h", ".", "c" >> >> } }

\* The form in bulk mode holding a large text or the entries of a large file.
InitCap ==
    /\ BackendIdle
    /\ ParseIdle
    /\ mode = "bulk"
    /\ email = << >>
    /\ firstName = << >>
    /\ lastName = << >>
    /\ redirectUrl = DEFAULT_REDIRECT_URL
    /\ sendEmailFlag = TRUE
    /\ resetRedemptionFlag = FALSE
    /\ customizedMessageBody = << >>
    /\ \/ /\ bulkInput \in CapTexts
          /\ bulkEntriesFromFile = << >>
          /\ bulkFileName = ""
          /\ result = NoResult
       \/ /\ bulkInput = << << >> >>
          /\ \E text \in CapFiles :
                LET parsed == parseEntraTemplateCsv(text,
                                  [resetRedemption |-> resetRedemptionFlag])
                IN  /\ bulkEntriesFromFile = parsed.entries
                    /\ result = [kind |-> "fileParsed",
                                 ok   |-> Len(parsed.errors) = 0,
                                 data |-> [parsedFromFile |-> "invite.csv",
                                           validRows      |-> Len(parsed.entries),
                                           invalidRows    |-> parsed.errors]]
          /\ bulkFileName = "invite.csv"
    /\ loading = FALSE
    /\ formPc = "idle"
    /\ entries = << >>
    /\ validationErrors = << >>
    /\ failures = << >>
    /\ calls = << >>
    /\ completed = 0
    /\ netScript = << >>

CapNext ==
    \/ inviteGuestBulk
    \/ BulkInviteReturns

SpecCap == InitCap /\ [][CapNext]_vars

(***************************************************************************)
(* The single invite (SpecSingle)                                          *)
(***************************************************************************)

\* inviteGuest in single mode, lines 332-361: from the submit event to the
\* awaited sendInvite, or to the return that reports an error.
inviteGuestSingle ==
    /\ formPc = "idle"
    /\ mode = "single"
    /\ ~loading
    /\ LET normalizedEmail     == normalizeEmail(email)
           normalizedFirstName == sanitizeName(firstName)
           normalizedLastName  == sanitizeName(lastName)
           normalizedRedirect  == trim(redirectUrl)
           refusal ==
               IF ~EMAIL_REGEX_test(normalizedEmail)
               THEN ErrorResult("Please enter a valid guest email.", 0)
               ELSE IF ~isValidHttpUrl(normalizedRedirect)
               THEN ErrorResult("Please enter a valid redirect URL.", 0)
               ELSE NoResult
       IN  /\ result' = refusal
           /\ IF refusal # NoResult
              THEN /\ loading' = FALSE
                   /\ calls' = << >>
                   /\ formPc' = "done"
              ELSE /\ loading' = TRUE
                   /\ calls' = << buildInvitePayload(
                          [email                 |-> normalizedEmail,
                           firstName             |-> normalizedFirstName,
                           lastName              |-> normalizedLastName,
                           displayName           |-> getDisplayName(normalizedFirstName,
                                                                    normalizedLastName),
                           inviteRedirectUrl     |-> normalizedRedirect,
                           sendEmail             |-> sendEmailFlag,
                           customizedMessageBody |-> trim(customizedMessageBody),
                           resetRedemption       |-> resetRedemptionFlag]) >>
                   /\ formPc' = "sending"
    /\ entries' = << >>
    /\ validationErrors' = << >>
    /\ failures' = << >>
    /\ completed' = 0
    /\ netScript' = << >>
    /\ UNCHANGED << mode, email, firstName, lastName, redirectUrl, sendEmailFlag,
                    resetRedemptionFlag, customizedMessageBody, bulkInput,
                    bulkEntriesFromFile, bulkFileName >>
    /\ UNCHANGED << backendVars, parseVars >>

\* The response texts of SpecSingle: no text, a text that is not a JSON
\* object, and JSON objects with or without string values in the fields
\* safeResponse reads and in one field it does not read.
ResponseTexts ==
    { NoText, [NoText EXCEPT !.form = "other"] }
    \cup [form : {"object"},
          message : {NULL, "Invitation sent."},
          status : {NULL, "invited_and_stamped"},
          code : {NULL},
          error : {NULL, "", "Forbidden."},
          detail : {NULL},
          inviteRedeemUrl : {NULL, "https://r"}]

\* What the fetch of a single invite can end in.
SingleOutcomes ==
    Outcomes
    \cup { [kind |-> "response", ok |-> st = 200, status |-> st, text |-> text] :
              st \in {200, 403, 500}, text \in ResponseTexts }

\* inviteGuest in single mode, lines 361-381: the awaited sendInvite returns
\* and its result is shown; the three fields are cleared on success.
SingleInviteReturns ==
    /\ formPc = "sending"
    /\ mode = "single"
    /\ \E outcome \in SingleOutcomes :
          LET inviteResponse == sendInvite(outcome)
          IN  /\ result' = [kind |-> "response", ok |-> inviteResponse.ok,
                            data |-> inviteResponse.data]
              /\ netScript' = << outcome >>
              /\ IF inviteResponse.ok
                 THEN /\ email' = << >>
                      /\ firstName' = << >>
                      /\ lastName' = << >>
                 ELSE UNCHANGED << email, firstName, lastName >>
    /\ completed' = 1
    /\ loading' = FALSE
    /\ formPc' = "done"
    /\ UNCHANGED << mode, redirectUrl, sendEmailFlag, resetRedemptionFlag,
                    customizedMessageBody, bulkInput, bulkEntriesFromFile, bulkFileName >>
    /\ UNCHANGED << entries, validationErrors, failures, calls, backendVars, parseVars >>

\* What the user has typed into the single-invite fields.
SingleEmails ==
    { << "a", "@", "b", ".", "c" >>,
      << " ", "A", "@", "b", ".", "C", " " >>,
      << "a", " ", "b", "@", "c" >> }

SingleNames ==
    { << >>,
      << " " >>,
      << " ", "J", " ", " ", "o", " " >>,
      << "X", "u" >> }

SingleRedirects ==
    { DEFAULT_REDIRECT_URL,
      << " ", "h", "t", "t", "p", ":", "/", "/", "l", "o", "c", "a", "l", "h",
         "o", "s", "t", ":", "3", "0", "0", "0", " " >>,
      << "h", "t", "t", "p", ":", "/", "/", "h", ".", "c" >> }

SingleMessages ==
    { << >>,
      << " ", "h", "i", " " >> }

\* The form on the Single Invite tab, filled in.
InitSingle ==
    /\ BackendIdle
    /\ ParseIdle
    /\ mode = "single"
    /\ email \in SingleEmails
    /\ firstName \in SingleNames
    /\ lastName \in SingleNames
    /\ redirectUrl \in SingleRedirects
    /\ sendEmailFlag \in BOOLEAN
    /\ resetRedemptionFlag \in BOOLEAN
    /\ customizedMessageBody \in SingleMessages
    /\ bulkInput = << << >> >>
    /\ bulkEntriesFromFile = << >>
    /\ bulkFileName = ""
    /\ loading = FALSE
    /\ result = NoResult
    /\ formPc = "idle"
    /\ entries = << >>
    /\ validationErrors = << >>
    /\ failures = << >>
    /\ calls = << >>
    /\ completed = 0
    /\ netScript = << >>

SingleNext ==
    \/ inviteGuestSingle
    \/ SingleInviteReturns

SpecSingle == InitSingle /\ [][SingleNext]_vars

(***************************************************************************)
(* Claims about the backend authorization (checked under Spec)             *)
(***************************************************************************)

\* The configuration of C1: managed environment, enforcement on, no allow-list.
ManagedEnforcedNoList ==
    /\ IS_AZURE_RUNTIME
    /\ ENFORCE_GROUP_MEMBERSHIP_IN_AZURE
    /\ ALLOWED_INVITER_GROUP_OBJECT_IDS = {}

\* authorizeInviter has returned for the request at hand.
AuthorizeReturned == inviterAuth # NoAuth

\* C1 as stated: in the managed environment with enforcement enabled and an
\* empty allow-list, whatever authorizeInviter returns is a denial with
\* status 500, whoever the caller is.
C1_AlwaysDenied500 ==
    (ManagedEnforcedNoList /\ AuthorizeReturned)
        => (~inviterAuth.authorized /\ inviterAuth.status = 500)

\* C1 amended: in that configuration no request is ever authorized and no
\* invitation is created; the denial has status 500 exactly when the caller
\* resolved to an active Member profile, 401 when the identity assertion or
\* the object id is missing, 403 when the profile is absent, disabled or a
\* guest's.
C1_NeverAuthorizedWhenMisconfigured ==
    ManagedEnforcedNoList =>
        /\ ~inviterAuth.authorized
        /\ hpc \notin {"awaitMembership", "awaitInvitation", "awaitStamp"}
        /\ \A i \in 1..Len(graphCalls) : graphCalls[i] = "GET /users/{callerOid}"
        /\ response.kind # "ok"
        /\ AuthorizeReturned =>
              inviterAuth.status =
                 IF request.header.raw # "json" \/ callerOid = NULL THEN 401
                 ELSE IF \/ profileRes.body.id = NULL
                         \/ profileRes.body.accountEnabled = "false"
                         \/ profileRes.body.userType # "Member" THEN 403
                 ELSE 500

\* C1 witness: an active Member is denied with 500 in that configuration.
C1_Witness ==
    /\ ManagedEnforcedNoList
    /\ inviterAuth.status = 500
    /\ profileRes.body.userType = "Member"
    /\ profileRes.body.id # NULL
    /\ response.status = 500

\* C2: authorizeInviter returns authorized with mode entra_authenticated only
\* when a principal was decoded, an object id extracted, the fetched profile
\* has an id, is not disabled and is a Member, the configuration is not
\* (managed, enforced, empty allow-list), and the membership query matched a
\* group whenever the allow-list is non-empty and (not managed or enforced);
\* the returned caller is the fetched profile.
C2_EntraAuthenticatedOnlyWhen ==
    (inviterAuth.authorized /\ inviterAuth.mode = "entra_authenticated") =>
        /\ request.header.raw = "json"
        /\ callerOid # NULL
        /\ callerOid \in {request.header.oidClaim, request.header.oidShort,
                          request.header.userId}
        /\ profileRes.ok
        /\ profileRes.body.id # NULL
        /\ profileRes.body.accountEnabled # "false"
        /\ profileRes.body.userType = "Member"
        /\ ~ManagedEnforcedNoList
        /\ (/\ ALLOWED_INVITER_GROUP_OBJECT_IDS # {}
            /\ (~IS_AZURE_RUNTIME \/ ENFORCE_GROUP_MEMBERSHIP_IN_AZURE))
              => (memberRes.ok /\ memberRes.isArray /\ memberRes.value # {})
        /\ inviterAuth.caller = profileRes.body

\* C2 witness: a Member authorized after a matching membership query in the
\* managed environment.
C2_Witness ==
    /\ inviterAuth.authorized
    /\ inviterAuth.mode = "entra_authenticated"
    /\ IS_AZURE_RUNTIME
    /\ memberRes.ok
    /\ memberRes.value # {}

\* The configuration of C3: outside the managed environment, anonymous local
\* invites permitted.
LocalBypassConfigured == ~IS_AZURE_RUNTIME /\ ALLOW_LOCAL_ANONYMOUS_INVITE

\* C3: with the local bypass configured, authorizeInviter returns authorized
\* with mode local_bypass and the synthetic caller for every request, with or
\* without an identity assertion, and no directory lookup is made.
C3_LocalBypassAlwaysAuthorized ==
    LocalBypassConfigured =>
        /\ hpc \notin {"awaitProfile", "awaitMembership"}
        /\ \A i \in 1..Len(graphCalls) :
              graphCalls[i] \notin {"GET /users/{callerOid}",
                                    "POST /users/{callerOid}/checkMemberGroups"}
        /\ response.kind # "denied"
        /\ (AuthorizeReturned \/ hpc \in {"awaitInvitation", "awaitStamp"}) =>
              /\ inviterAuth.authorized
              /\ inviterAuth.mode = "local_bypass"
              /\ inviterAuth.caller.id = "local-dev"
              /\ inviterAuth.caller.userType = "Member"
        /\ profileRes = NoProfileRes
        /\ memberRes = NoMemberRes

\* C3 witness: a request without any identity header is authorized by bypass.
C3_Witness ==
    /\ LocalBypassConfigured
    /\ request.header.raw = "none"
    /\ inviterAuth.mode = "local_bypass"

\* C4: when bypass does not apply and the object id was extracted, a profile
\* lookup answering not found (404), or a disabled profile, ends the request
\* as the denial 403 "Caller account is not active".
C4_InactiveCallerDenied403 ==
    (/\ hpc = "done"
     /\ callerOid # NULL
     /\ profileRes # NoProfileRes
     /\ \/ profileRes.status = 404
        \/ (profileRes.ok /\ profileRes.body.accountEnabled = "false"))
        => /\ response.kind = "denied"
           /\ response.status = 403
           /\ response.error = "Forbidden. Caller account is not active."

\* How often a call occurs among the Graph calls of the request.
CallCount(call) == Cardinality({k \in 1..Len(graphCalls) : graphCalls[k] = call})

InvitationCalls == CallCount("POST /invitations")

StampCalls == CallCount("PATCH /users/{invitedUserId}")

\* A directory lookup of authorizeInviter (profile or group membership) has
\* failed.
LookupFailed ==
    \/ (profileRes # NoProfileRes /\ ~profileRes.ok)
    \/ (memberRes # NoMemberRes /\ ~memberRes.ok)

\* C15: POST /invitations is issued only after authorizeInviter returned
\* authorized for the request; a request without email (400), a denied
\* request (401/403/500) and a request whose token acquisition or directory
\* lookup failed make no invitation call and no stamp call, and a failed
\* lookup ends the request as an error response, never as authorized.
C15_InvitationOnlyAfterAuthorized ==
    /\ InvitationCalls <= 1
    /\ InvitationCalls = 1 => (inviterAuth.authorized /\ request.email # NULL)
    /\ ~inviterAuth.authorized => (InvitationCalls = 0 /\ StampCalls = 0)
    /\ response.kind \in {"bad_request", "denied"} =>
          (InvitationCalls = 0 /\ StampCalls = 0)
    /\ response.kind = "bad_request" => (response.status = 400 /\ graphCalls = << >>)
    /\ response.kind = "denied" => response.status \in {401, 403, 500}
    /\ LookupFailed =>
          /\ hpc = "done"
          /\ response.kind = "error"
          /\ inviterAuth = NoAuth
          /\ InvitationCalls = 0
          /\ StampCalls = 0

\* C15's case: the group-membership lookup failed.
C15_Witness ==
    /\ hpc = "done"
    /\ memberRes # NoMemberRes
    /\ ~memberRes.ok
    /\ response.kind = "error"
    /\ InvitationCalls = 0

\* C16: the handler answers 200 invited_and_stamped only if POST /invitations
\* succeeded with an invited user id and the stamp on that id succeeded; the
\* stamp is issued only after such an invitation and at most once; when the
\* stamp fails the request ends as an error although the invitation exists,
\* with no further call (no rollback, no retry).
C16_StampedOnlyAfterInvitationAndStamp ==
    /\ response.kind = "ok" =>
          /\ response.status = 200
          /\ response.error = "invited_and_stamped"
          /\ invitation.ok
          /\ invitation.invitedUserId # NULL
          /\ stampRes # NoStamp
          /\ stampRes.ok
    /\ response.status = 200 => response.kind = "ok"
    /\ StampCalls <= 1
    /\ StampCalls = 1 =>
          /\ invitation.ok
          /\ invitation.invitedUserId # NULL
          /\ Len(graphCalls) >= 2
          /\ graphCalls[Len(graphCalls)] = "PATCH /users/{invitedUserId}"
          /\ graphCalls[Len(graphCalls) - 1] = "POST /invitations"
    /\ (stampRes # NoStamp /\ ~stampRes.ok) =>
          /\ hpc = "done"
          /\ response.kind = "error"
          /\ response.status # 200
          /\ invitation.ok
          /\ InvitationCalls = 1
          /\ StampCalls = 1

\* C16's case: the invitation was created and the stamp failed.
C16_Witness ==
    /\ hpc = "done"
    /\ invitation.ok
    /\ invitation.invitedUserId # NULL
    /\ stampRes # NoStamp
    /\ ~stampRes.ok
    /\ response.kind = "error"

(***************************************************************************)
(* Claims about the bulk parsers (checked under SpecParse)                 *)
(***************************************************************************)

Parsed(parser) == parsePc = "parsed" /\ parseMode = parser

IsBlankLine(line) == \A i \in 1..Len(line) : line[i] \in Whitespace

\* The 1-based numbers of the non-blank lines among the first k lines.
NonBlankLineNumbers(text, k) == {i \in 1..k : ~IsBlankLine(text[i])}

Produced(r) == Len(r.entries) + Len(r.errors)

IsPrefix(a, b) == Len(a) <= Len(b) /\ SubSeq(b, 1, Len(a)) = a

\* The trimmed non-blank lines of the template file at hand, and whether its
\* header row names both required columns.
FileLines == NonBlankTrimmed(stripBOM(parseText))

HeaderHasRequired ==
    /\ Len(FileLines) >= 2
    /\ includes(FileLines[2], W_inviteeEmail)
    /\ includes(FileLines[2], W_inviteRedirectURL)

\* The data rows (3rd non-blank line onward) whose email column holds a
\* placeholder prefixed with Example:
ExampleRows ==
    {k \in 3..Len(FileLines) :
        startsWith(Cell(parseCsvLine(FileLines[k]),
                        findIndex(parseCsvLine(FileLines[2]), W_inviteeEmail)),
                   W_Example)}

\* C5: in templated mode a data row whose email column holds a placeholder
\* prefixed with Example: adds no entry and no error, so entries and errors
\* together number at most the data rows that are not such rows.
C5_ExampleRowsSkipped ==
    (Parsed("template") /\ HeaderHasRequired) =>
        Produced(parseResult) <= Cardinality((3..Len(FileLines)) \ ExampleRows)

FirstFieldEmail(line) == toLowerCase(trim(parseCsvLine(line)[1]))

ValidLineNumbers ==
    {i \in NonBlankLineNumbers(parseText, Len(parseText)) :
        EMAIL_REGEX_test(FirstFieldEmail(parseText[i]))}

InvalidLineNumbers ==
    NonBlankLineNumbers(parseText, Len(parseText)) \ ValidLineNumbers

\* C9: in free-form mode every line with a valid address gives exactly one
\* entry, carrying that address trimmed and lowercased, and every line with
\* an invalid address gives no entry and exactly one error "Line N: invalid
\* email" with N the line's number in the input text, blank lines counted.
C9_ManualLineOutcomes ==
    Parsed("manual") =>
        /\ Len(parseResult.entries) = Cardinality(ValidLineNumbers)
        /\ \A i \in ValidLineNumbers :
              parseResult.entries[Cardinality({j \in ValidLineNumbers : j <= i})].email
                 = FirstFieldEmail(parseText[i])
        /\ Len(parseResult.errors) = Cardinality(InvalidLineNumbers)
        /\ \A i \in InvalidLineNumbers :
              Cardinality({k \in 1..Len(parseResult.errors) :
                              parseResult.errors[k] = LineError(i, "invalid email")}) = 1


\* The numbers (among the trimmed non-blank lines) of the data rows that gave
\* an entry, in order: the rows not skipped whose email and redirect are valid.
HeaderCells == parseCsvLine(FileLines[2])

EntryRows ==
    LET emailIdx    == findIndex(HeaderCells, W_inviteeEmail)
        redirectIdx == findIndex(HeaderCells, W_inviteRedirectURL)
        Usable(k)   ==
            LET row      == parseCsvLine(FileLines[k])
                rawEmail == stripExamplePrefix(Cell(row, emailIdx))
            IN  /\ rawEmail # << >>
                /\ EMAIL_REGEX_test(toLowerCase(trim(rawEmail)))
                /\ isValidHttpUrl(trim(Cell(row, redirectIdx)))
    IN  SelectSeq([k \in 1..Len(FileLines) |-> k], LAMBDA k : k >= 3 /\ Usable(k))

\* The text of the [sendEmail] cell of data row k, trimmed and lowercased;
\* empty when the cell is blank or the file has no such column.
SendEmailText(k) ==
    LET sendEmailIdx == findIndex(HeaderCells, W_sendEmail)
    IN  IF sendEmailIdx < 0 THEN << >>
        ELSE toLowerCase(trim(Cell(parseCsvLine(FileLines[k]), sendEmailIdx)))

\* C11: in templated mode an entry's sendEmail is true when the column text
\* is "true", false when it is "false" (any case, trimmed), and for any other
\* text, a blank cell or an absent column it is the user's send-email setting.
C11_SendEmailFallsBackToUserSetting ==
    (Parsed("template") /\ HeaderHasRequired) =>
        /\ Len(parseResult.entries) = Len(EntryRows)
        /\ \A j \in 1..Len(parseResult.entries) :
              parseResult.entries[j].sendEmail =
                  (IF SendEmailText(EntryRows[j]) = W_true THEN TRUE
                   ELSE IF SendEmailText(EntryRows[j]) = W_false THEN FALSE
                   ELSE sendEmailFlag)

\* The same with the fallback the code has, the constant true: this holds.
C11_SendEmailFallsBackToTrue ==
    (Parsed("template") /\ HeaderHasRequired) =>
        /\ Len(parseResult.entries) = Len(EntryRows)
        /\ \A j \in 1..Len(parseResult.entries) :
              parseResult.entries[j].sendEmail =
                  (IF SendEmailText(EntryRows[j]) = W_false THEN FALSE ELSE TRUE)

\* What the character at position i of csvLine is read as, by a reading of
\* the line that does not build the fields: at[i] is where the reader stands
\* before position i, "out" of quotes, "in" quotes, or on the second quote of
\* a doubled quote ("esc").
QuoteAt[i \in 1..(Len(csvLine) + 1)] ==
    IF i = 1 THEN "out"
    ELSE LET before == QuoteAt[i - 1]
             ch     == csvLine[i - 1]
         IN  IF before = "esc" THEN "in"
             ELSE IF ch # "\"" THEN before
             ELSE IF before = "in" /\ i <= Len(csvLine) /\ csvLine[i] = "\"" THEN "esc"
             ELSE IF before = "in" THEN "out"
             ELSE "in"

\* The commas that are not inside a double-quoted region.
Separators == {i \in 1..Len(csvLine) : csvLine[i] = "," /\ QuoteAt[i] = "out"}

\* The positions whose character goes into a field: every character but the
\* separators and the quotes, and of a doubled quote in a quoted region the
\* first quote.
Kept(i) ==
    /\ i \notin Separators
    /\ QuoteAt[i] # "esc"
    /\ csvLine[i] = "\"" => (i < Len(csvLine) /\ QuoteAt[i + 1] = "esc")

\* The n-th field (n = 1 is the first): the kept characters between the
\* (n-1)-th and the n-th separator, trimmed.
FieldBounds(n) ==
    LET lo == IF n = 1 THEN 0
              ELSE CHOOSE i \in Separators : Cardinality({j \in Separators : j <= i}) = n - 1
        hi == IF n = Cardinality(Separators) + 1 THEN Len(csvLine) + 1
              ELSE CHOOSE i \in Separators : Cardinality({j \in Separators : j <= i}) = n
    IN  << lo, hi >>

ExpectedField(n) ==
    LET b    == FieldBounds(n)
        idx  == SelectSeq([i \in 1..Len(csvLine) |-> i],
                          LAMBDA i : i > b[1] /\ i < b[2] /\ Kept(i))
    IN  trim([k \in 1..Len(idx) |-> csvLine[idx[k]]])

\* C13: parseCsvLine returns, for every line, the trimmed fields between the
\* commas that are outside quotes, in order: one field more than there are
\* such commas (one empty field for the empty line); a doubled quote in a
\* quoted region gives one quote, the other quotes are dropped, and after an
\* unclosed quote the rest of the line is one field.
C13_FieldsSplitAtUnquotedCommas ==
    (parsePc = "parsed" /\ parseMode = "csv") =>
        /\ Len(csvFields) = Cardinality(Separators) + 1
        /\ \A n \in 1..Len(csvFields) : csvFields[n] = ExpectedField(n)
        /\ csvLine = << >> => csvFields = << << >> >>
        /\ (QuoteAt[Len(csvLine) + 1] # "out") =>
              \A i \in Separators :
                 \E j \in (i + 1)..Len(csvLine) : csvLine[j] = "\""

\* C13's case: a quoted region holding a doubled quote, then an unquoted
\* comma: two fields, the first of them one quote.
C13_Witness ==
    /\ parsePc = "parsed"
    /\ parseMode = "csv"
    /\ csvLine = << "\"", "\"", "\"", "\"", "," >>
    /\ Len(csvFields) = 2
    /\ csvFields[1] = << "\"" >>
    /\ csvFields[2] = << >>

(***************************************************************************)
(* Claims about the bulk submission (checked under SpecBulk and SpecCap)   *)
(***************************************************************************)

\* The bulk source of the running submission is the uploaded file.
SourceIsFile == Len(bulkEntriesFromFile) > 0

\* The addresses of the usable rows of the form's bulk input, in input order:
\* the rows of the uploaded file, or else the lines of the text area whose
\* first field is a valid email.
InputEmails ==
    IF SourceIsFile
    THEN [k \in 1..Len(bulkEntriesFromFile) |-> bulkEntriesFromFile[k].email]
    ELSE LET lines  == NonBlankTrimmed(bulkInput)
             usable == SelectSeq(lines,
                           LAMBDA l : EMAIL_REGEX_test(FirstFieldEmail(l)))
         IN  [k \in 1..Len(usable) |-> FirstFieldEmail(usable[k])]

\* C6: in a bulk submission the calls go out one at a time and in input order:
\* never more than one call is awaited, call k is the call for the k-th usable
\* row, call k + 1 exists only when call k has returned, and when the summary
\* is shown every entry has been attempted exactly once, whatever the earlier
\* calls returned (HTTP error, network failure or timeout).
C6_OneAtATimeEveryEntryOnce ==
    formPc # "idle" =>
        /\ Len(calls) <= completed + 1
        /\ completed <= Len(calls)
        /\ formPc = "sending" => Len(calls) = completed + 1
        /\ Len(calls) <= Len(entries)
        /\ \A k \in 1..Len(calls) : calls[k] = buildInvitePayload(entries[k])
        /\ formPc = "sending" =>
              \A k \in 1..Len(calls) : calls[k]["email"] = InputEmails[k]
        /\ (formPc = "done" /\ result.kind = "summary") =>
              /\ Len(calls) = Len(entries)
              /\ completed = Len(entries)
              /\ Len(failures) <= Len(entries)

\* C6's case: a batch of two different addresses whose first call failed and
\* whose second call was made all the same.
C6_Witness ==
    /\ formPc = "done"
    /\ result.kind = "summary"
    /\ Len(entries) = 2
    /\ entries[1].email # entries[2].email
    /\ Len(failures) >= 1
    /\ failures[1].email = entries[1].email
    /\ Len(calls) = 2
    /\ calls[2]["email"] = entries[2].email

\* The error result of line 420-423.
LimitError ==
    ErrorResult("Bulk invite limit is <MAX_BULK_INVITES> rows per submission.",
                MAX_BULK_INVITES)

\* C7: a bulk submission with more than 100 usable entries, typed or uploaded,
\* ends at once with the limit error and no call is ever issued; a submission
\* with 1 to 100 usable entries is not refused and issues its first call.
C7_LimitBeforeAnyCall ==
    formPc # "idle" =>
        /\ completed = 0 => Len(entries) = Len(InputEmails)
        /\ Len(entries) > 100 =>
              /\ formPc = "done"
              /\ result = LimitError
              /\ result.data.rows = 100
              /\ ~loading
              /\ calls = << >>
              /\ completed = 0
        /\ Len(entries) \in 1..100 =>
              /\ result.kind # "error"
              /\ Len(calls) >= 1

\* C7's case: 101 usable entries were submitted.
C7_Witness ==
    /\ formPc = "done"
    /\ Len(entries) = 101
    /\ result = LimitError
    /\ calls = << >>

\* C10: when the bulk source is an uploaded file, every payload of the
\* submission carries resetRedemption equal to the reset flag at the time of
\* the submit, whatever the flag was when the file was parsed.
C10_FilePayloadsCarryCurrentFlag ==
    (formPc = "sending" /\ SourceIsFile) =>
        /\ Len(calls) >= 1
        /\ \A k \in 1..Len(calls) :
              /\ "resetRedemption" \in DOMAIN calls[k]
              /\ calls[k]["resetRedemption"] = resetRedemptionFlag

\* C10's case: the flag was toggled between the upload and the submit, and
\* every row of the file has been sent.
C10_Witness ==
    /\ formPc = "sending"
    /\ SourceIsFile
    /\ Len(bulkEntriesFromFile) = 2
    /\ \A k \in 1..2 : bulkEntriesFromFile[k].resetRedemption # resetRedemptionFlag
    /\ Len(calls) = 2

(***************************************************************************)
(* Claims about the single invite (checked under SpecSingle)               *)
(***************************************************************************)

\* Two responses with the same HTTP status whose texts are JSON objects with
\* the same message, status, code, error and detail.
SameSafeFields(a, b) ==
    /\ a.kind = "response" /\ b.kind = "response"
    /\ a.ok = b.ok
    /\ a.status = b.status
    /\ a.text.form = "object" /\ b.text.form = "object"
    /\ a.text.message = b.text.message
    /\ a.text.status = b.text.status
    /\ a.text.code = b.text.code
    /\ a.text.error = b.text.error
    /\ a.text.detail = b.text.detail

\* A single invite has been answered; netScript[1] is the answer.
SingleAnswered ==
    mode = "single" /\ formPc = "done" /\ result.kind = "response"

\* C12: the result sendInvite gave depends on the response only through its
\* HTTP status and the five string fields: any response that differs from the
\* one received in other JSON fields only would have given the same result,
\* for success and for non-success responses alike.
C12_OnlySafeFieldsReachResult ==
    SingleAnswered =>
        \A other \in SingleOutcomes :
            SameSafeFields(other, netScript[1]) =>
                /\ sendInvite(other).ok = result.ok
                /\ sendInvite(other).data = result.data

\* The same for success responses only: this holds.
C12_OnlySafeFieldsReachResultOnSuccess ==
    (SingleAnswered /\ result.ok) =>
        \A other \in SingleOutcomes :
            SameSafeFields(other, netScript[1]) =>
                /\ sendInvite(other).ok = result.ok
                /\ sendInvite(other).data = result.data

\* The email and the redirect URL typed into the single-invite form are valid.
SingleInputValid ==
    /\ EMAIL_REGEX_test(toLowerCase(trim(email)))
    /\ isValidHttpUrl(trim(redirectUrl))

\* C14: a single-invite submission with a valid email and a valid redirect
\* URL issues exactly one call; its payload has email and displayName, has
\* the redirect URL under both inviteRedirectUrl and inviteRedirectURL, and
\* has firstName (lastName) exactly when the sanitized first (last) name is
\* not empty. A submission with an invalid email or redirect URL issues none.
C14_SinglePayload ==
    (mode = "single" /\ formPc # "idle") =>
        /\ Len(calls) <= 1
        /\ formPc = "sending" =>
              /\ SingleInputValid
              /\ Len(calls) = 1
              /\ completed = 0
              /\ {"email", "displayName", "inviteRedirectUrl", "inviteRedirectURL"}
                     \subseteq DOMAIN calls[1]
              /\ calls[1]["email"] = toLowerCase(trim(email))
              /\ calls[1]["inviteRedirectUrl"] = trim(redirectUrl)
              /\ calls[1]["inviteRedirectURL"] = calls[1]["inviteRedirectUrl"]
              /\ ("firstName" \in DOMAIN calls[1]) <=> (sanitizeName(firstName) # << >>)
              /\ ("lastName" \in DOMAIN calls[1]) <=> (sanitizeName(lastName) # << >>)
        /\ (formPc = "done" /\ result.kind = "response") =>
              Len(calls) = 1 /\ completed = 1
        /\ (formPc = "done" /\ result.kind # "response") =>
              /\ ~SingleInputValid
              /\ result.kind = "error"
              /\ calls = << >>

\* C14's case: a valid submission whose first name is blank after
\* sanitizing and whose last name is not.
C14_Witness ==
    /\ mode = "single"
    /\ formPc = "sending"
    /\ firstName = << " " >>
    /\ lastName # << >>
    /\ Len(calls) = 1
    /\ "firstName" \notin DOMAIN calls[1]
    /\ "lastName" \in DOMAIN calls[1]

(***************************************************************************)
(* The bulk summary (checked under SpecBulk)                               *)
(***************************************************************************)

\* What the network answered to the k-th call of the running submission.
AnswerTo(k) == netScript[((k - 1) % FreeCalls) + 1]

\* The numbers of the entries whose call did not succeed, in input order.
UnsuccessfulCalls ==
    SelectSeq([k \in 1..Len(entries) |-> k],
              LAMBDA k : ~sendInvite(AnswerTo(k)).ok)

\* The number of rows of the bulk source at hand that the form found invalid:
\* the rows the parse of the uploaded template file rejected (reported by the
\* upload, lines 317-324), or else the non-blank lines of the text area whose
\* first field is not a valid email.
SourceInvalidRows ==
    IF SourceIsFile
    THEN IF result.kind = "fileParsed" THEN Len(result.data.invalidRows) ELSE 0
    ELSE Len(NonBlankTrimmed(bulkInput)) - Len(InputEmails)

SummaryShown == formPc = "done" /\ result.kind = "summary"

\* The counts of a shown summary that concern the submitted entries:
\* validRows is the number of calls issued, invited + failed = validRows,
\* failed is the length of failures, failures lists the entries whose call did
\* not succeed, in input order, and totalRows is validRows plus the length of
\* the summary's own invalidRows.
SummaryCountsSubmittedEntries ==
    SummaryShown =>
        LET d == result.data
        IN  /\ d.validRows = Len(calls)
            /\ d.validRows = completed
            /\ d.invited + d.failed = d.validRows
            /\ d.invited >= 0
            /\ d.failed = Len(d.failures)
            /\ Len(d.failures) = Len(UnsuccessfulCalls)
            /\ \A j \in 1..Len(d.failures) :
                  d.failures[j].email = entries[UnsuccessfulCalls[j]].email
            /\ d.invalidRows = validationErrors
            /\ d.totalRows = d.validRows + Len(d.invalidRows)

\* A bulk submit counts as invalid exactly the rows of its source that the
\* form found invalid.
SubmitCountsSourceInvalidRows ==
    (formPc = "idle" /\ mode = "bulk" /\ formPc' # "idle") =>
        Len(validationErrors') = SourceInvalidRows

\* C17: every bulk summary has validRows equal to the number of calls issued,
\* invited + failed = validRows, failed equal to the length of failures,
\* failures listing exactly the entries whose call did not succeed in input
\* order, and totalRows = validRows + the number of invalid rows of the
\* submitted source, the rows a template file parse rejected included.
C17_SummaryCountsEverySourceRow ==
    /\ []SummaryCountsSubmittedEntries
    /\ [][SubmitCountsSourceInvalidRows]_vars

\* The part of C17 about the submitted entries alone holds.
C17_SummaryCountsSubmittedEntriesOnly == []SummaryCountsSubmittedEntries

\* For the text area as the source the whole of C17 holds.
C17_SummaryCountsEveryTypedRow ==
    /\ []SummaryCountsSubmittedEntries
    /\ [][~SourceIsFile => SubmitCountsSourceInvalidRows]_vars

====
